---- MODULE Spec2Model ----
(***************************************************************************)
(* Model of ingram_data_services/ingram.py: the orchestration in main(),   *)
(* the listing session and the download batches of download_data_files,   *)
(* the worker tasks download_file / extract_zip / extract_cover_zip, and   *)
(* the batch semantics of multiprocessing.Pool.starmap as CPython defines  *)
(* them (an iterable is cut into chunks, a worker runs a chunk's tasks in  *)
(* order, an exception ends the chunk, the call returns or re-raises once  *)
(* every chunk has been accounted for).                                    *)
(***************************************************************************)
EXTENDS Integers, Sequences, FiniteSets, TLC

\* ------------------------------------------------------------------ bounds

\* Worker processes of multiprocessing.Pool(): os.cpu_count() of the host.
PoolSize == 2
\* Consecutive invocations of main() that are followed.
MaxRuns == 2
\* Failures (exceptions, interrupts) injected over a behaviour.
MaxFaults == 1
\* Remote files per category on the feed server.
NCover == 3
NOnix == 2
NBklst == 1
NRef == 1
\* Largest batch followed on its own (one starmap call).
MaxBatch == 9
\* Cover archives, and entries per archive, followed at the level of the file system.
NZips == 2
MaxEntries == 2

\* --------------------------------------------------------------- constants

\* Pool._map_async: chunksize, extra = divmod(len(iterable), len(pool) * 4).
ChunkFactor == 4
\* range(0, 10000) of unzip_covers_threaded.
NumShards == 10000
\* subdir[-4:] of extract_cover_zip.
ShardWidth == 4

Cats == {"cover", "onix", "bklst", "ref"}
\* The order in which download_data_files lists the categories.
ListOrder == <<"cover", "onix", "bklst", "ref">>
\* The batches main() hands to a pool, in order: four download batches
\* (one pool), then the three extraction batches (a pool each).
PhaseCat == <<"cover", "onix", "bklst", "ref", "cover", "onix", "bklst">>
NumPhases == 7
LastDownloadPhase == 4
CoverExtractPhase == 5
IsDownload(p) == p <= LastDownloadPhase

Workers == 1..PoolSize
Phases == 1..NumPhases
DownloadPhases == {p \in Phases : IsDownload(p)}
ExtractPhases == {p \in Phases : ~IsDownload(p)}

\* ------------------------------------------------------------ remote feed

NumFiles(c) ==
    CASE c = "cover" -> NCover
      [] c = "onix"  -> NOnix
      [] c = "bklst" -> NBklst
      [] c = "ref"   -> NRef

\* A remote file is <<category, k>>; identity is the pair (its path).
RemoteFiles == {f \in Cats \X (1..(NCover + NOnix + NBklst + NRef)) : f[2] <= NumFiles(f[1])}

\* Last-modified time of a remote file on the server. Runs happen at times
\* 1, 2, ...; the second and later ONIX deltas are published after run 1.
ModifiedAt(f) == IF f[1] = "onix" /\ f[2] > 1 THEN 2 ELSE 1

\* The files of S of category c, in name order.
SeqOf(c, S) ==
    LET ks == {f[2] : f \in {g \in S : g[1] = c}}
        top == IF ks = {} THEN 0 ELSE CHOOSE k \in ks : \A j \in ks : j <= k
        F[k \in 0..top] ==
            IF k = 0 THEN <<>>
            ELSE IF k \in ks THEN Append(F[k - 1], <<c, k>>) ELSE F[k - 1]
    IN  F[top]

Range(s) == {s[i] : i \in 1..Len(s)}

VARIABLES
    run,          \* number of the current invocation of main(); also the clock
    pc,           \* position of main()
    nlist,        \* categories listed so far by download_data_files
    paths,        \* cover_paths, onix_paths, onix_bklst_paths, ref_paths
    phase,        \* the batch main() is at (index into PhaseCat)
    tasks,        \* per batch: the argument list handed to starmap
    st,           \* per batch: state of each task
    taken,        \* chunks of the current batch already given to a worker
    wk,           \* per worker process: the task it runs and its step
    openSess,     \* sessions that were opened and not closed
    inflight,     \* transfers in flight: [by |-> task, on |-> session]
    downloadDir,  \* local files under download_dir
    shardsMade,   \* shard directories 0000 .. shardsMade-1 exist under Imageswk/<cover_size>
    lastRunAt,    \* the persisted run history
    faults,       \* failures injected so far
    saves,        \* invocations of save_run_history in this run
    startLastRunAt, \* lastRunAt as it was when this run started
    startShards,  \* shardsMade as it was when this run started
    failedNow,    \* files discovered in this run whose task raised
    failedPrev,   \* the same, of the previous run, until this run's listing is complete
    returned,     \* batches of this run whose starmap call has returned
    err,          \* kinds of failure this run has met
    zipEntries,   \* per cover archive: zf.namelist()
    fsDirs,       \* directories under the cover target_dir other than the shard loop's
    fsFiles,      \* files under the cover target_dir
    mkBy,         \* directories created inside extraction tasks: [dir, by]
    cvK,          \* per worker: index of the archive entry extract_cover_zip is at
    fsData,       \* per file under the cover target_dir: where its bytes come from
    wrote,        \* writes of the extract_cover_zip tasks of the batch: [path, by]
    fsSnap,       \* the cover target_dir as the previous unzip_covers_threaded call left it
    flatFiles,    \* members extracted by extract_zip that are under working_dir
    overwrote     \* members extract_zip wrote over a file that was there

vars == <<run, pc, nlist, paths, phase, tasks, st, taken, wk, openSess, inflight,
          downloadDir, shardsMade, lastRunAt, faults, saves, startLastRunAt,
          startShards, failedNow, failedPrev, returned, err,
          zipEntries, fsDirs, fsFiles, mkBy, cvK, fsData, wrote, fsSnap,
          flatFiles, overwrote>>

\* ----------------------------------------------------------------- helpers

Idle == [p |-> 0, task |-> 0, step |-> "idle"]
NoTasks == [p \in 1..NumPhases |-> <<>>]
NoPaths == [c \in Cats |-> <<>>]
\* No earlier unzip_covers_threaded call to compare with.
NoSnap == [files |-> {}, dirs |-> {}, data |-> <<>>, none |-> TRUE]

\* The session opened by download_data_files, and the one opened by the
\* download_file task i of batch p.
ListSess == <<0, 0>>
TaskSess(p, i) == <<p, i>>

\* IngramFTP.get_*_files: the files of the category that are on the server
\* and newer than the persisted run history.
NewFiles(c) ==
    SeqOf(c, {f \in RemoteFiles : f[1] = c /\ ModifiedAt(f) <= run /\ ModifiedAt(f) > lastRunAt})

\* get_files_matching(os.path.join(download_dir, <category dir>), "*.zip").
LocalZips(c) == SeqOf(c, {f \in downloadDir : f[1] = c})

\* Pool._map_async: the chunk size for an iterable of n tasks.
ChunkSize(n) ==
    IF n = 0 THEN 0
    ELSE LET q == n \div (PoolSize * ChunkFactor)
             r == n % (PoolSize * ChunkFactor)
         IN  IF r > 0 THEN q + 1 ELSE q

NumChunks(n) == IF n = 0 THEN 0 ELSE (n + ChunkSize(n) - 1) \div ChunkSize(n)
FirstOfChunk(c, n) == (c - 1) * ChunkSize(n) + 1
LastOfChunk(c, n) == IF c * ChunkSize(n) < n THEN c * ChunkSize(n) ELSE n
ChunkOf(i, n) == ((i - 1) \div ChunkSize(n)) + 1

NTasks == Len(tasks[phase])
Terminal == {"done", "failed", "skipped", "killed"}

\* Variant: the call returns once every chunk is handed out (map_async
\* without get()).
BatchHandedOut == taken = NumChunks(NTasks)

\* starmap's result is ready: every chunk was taken, no worker holds one,
\* and the result of every chunk has come back (a chunk whose worker process
\* died is never reported, and MapResult waits for it).
BatchComplete ==
    /\ taken = NumChunks(NTasks)
    /\ \A w \in Workers : wk[w].task = 0
    /\ \A i \in 1..NTasks : st[phase][i] # "lost"

AnyFailed(p) == \E i \in 1..Len(st[p]) : st[p][i] = "failed"

\* The sessions closed when the with block of line 121 is left.
ListingSessionsClosed == {ListSess}

\* The sessions closed when the with block of line 111 of task i of batch p
\* is left.
TaskSessionsClosed(p, i) == {TaskSess(p, i)}

\* Variant: the tasks transfer on the session download_data_files opened.
SessionShared(p, i) == ListSess

\* The session a download_file task transfers on: the ftp bound by its own
\* with statement (line 111), not a session of another scope.
SessionUsedBy(p, i) == TaskSess(p, i)

\* Variant: the loop stops one directory short (range(0, 9999)).
ShardsAfterLoopShort(existing) == IF existing > NumShards - 1 THEN existing ELSE NumShards - 1

\* The loop of lines 185-187 creates 0000 .. 9999 in order.
ShardsAfterLoop(existing) == IF existing > NumShards THEN existing ELSE NumShards

\* ------------------------------------------------------------------- Init

Init ==
    /\ run = 1
    /\ pc = "main"
    /\ nlist = 0
    /\ paths = NoPaths
    /\ phase = 1
    /\ tasks = NoTasks
    /\ st = NoTasks
    /\ taken = 0
    /\ wk = [w \in Workers |-> Idle]
    /\ openSess = {}
    /\ inflight = {}
    /\ downloadDir = {}
    /\ shardsMade = 0
    /\ lastRunAt = 0
    /\ faults = 0
    /\ saves = 0
    /\ startLastRunAt = 0
    /\ startShards = 0
    /\ failedNow = {}
    /\ failedPrev = {}
    /\ returned = {}
    /\ err = {}
    /\ zipEntries = <<>>
    /\ fsDirs = {}
    /\ fsFiles = {}
    /\ mkBy = {}
    /\ cvK = [w \in Workers |-> 0]
    /\ fsData = <<>>
    /\ wrote = {}
    /\ fsSnap = NoSnap
    /\ flatFiles = {}
    /\ overwrote = {}

persistent == <<downloadDir, shardsMade, lastRunAt>>
history == <<saves, startLastRunAt, startShards, failedPrev>>
poolVars == <<tasks, st, taken, wk>>
fsVars == <<zipEntries, fsDirs, fsFiles, mkBy, cvK, fsData, wrote, fsSnap, flatFiles, overwrote>>
flatVars == <<flatFiles, overwrote>>

\* ------------------------------------------------- download_data_files

\* Variant: the exception of the listing is caught and the run goes on.
PcListErrorSwallowed == "list"

\* Where main() is after an exception left download_data_files while the
\* listing session was being opened or used: nothing catches it.
PcAfterListError == "aborted"

\* with IngramFTP(host=host, user=user, passwd=passwd) as ftp:  (line 121)
\* The constructor connects and logs in; AuthError/ConnectError leaves main().
OpenListing ==
    /\ UNCHANGED fsVars
    /\ pc = "main"
    /\ \/ /\ pc' = "list"
          /\ openSess' = openSess \cup {ListSess}
          /\ UNCHANGED <<faults, err>>
       \/ /\ faults < MaxFaults
          /\ faults' = faults + 1
          /\ err' = err \cup {"listing"}
          /\ pc' = PcAfterListError
          /\ UNCHANGED openSess
    /\ UNCHANGED <<run, nlist, paths, phase, poolVars, inflight, persistent, history,
                   failedNow, returned>>

\* ftp.get_cover_files / get_onix_files / get_onix_bklst_files /
\* get_reference_files, in that order (lines 125-131). An exception leaves the
\* with block, whose exit closes the session, and then main().
ListCategory ==
    /\ UNCHANGED fsVars
    /\ pc = "list"
    /\ nlist < Len(ListOrder)
    /\ \/ /\ paths' = [paths EXCEPT ![ListOrder[nlist + 1]] = NewFiles(ListOrder[nlist + 1])]
          /\ nlist' = nlist + 1
          /\ UNCHANGED <<pc, openSess, faults, err>>
       \/ /\ faults < MaxFaults
          /\ faults' = faults + 1
          /\ err' = err \cup {"listing"}
          /\ openSess' = openSess \ ListingSessionsClosed
          /\ pc' = PcAfterListError
          /\ UNCHANGED <<paths, nlist>>
    /\ UNCHANGED <<run, phase, poolVars, inflight, persistent, history, failedNow, returned>>

\* The argument tuples are assembled and the with block of line 121 ends:
\* the listing session is closed before the pool of line 141 is created.
CloseListing ==
    /\ UNCHANGED fsVars
    /\ pc = "list"
    /\ nlist = Len(ListOrder)
    /\ openSess' = openSess \ ListingSessionsClosed
    /\ pc' = "call"
    /\ phase' = 1
    /\ failedPrev' = {}
    /\ UNCHANGED <<run, nlist, paths, poolVars, inflight, persistent, faults,
                   saves, startLastRunAt, startShards, failedNow, returned, err>>

\* ---------------------------------------------------------- starmap batches

\* The iterable of the batch: the argument tuples of a download batch, or
\* the archives found under download_dir for an extraction batch.
BatchArgs(p) == IF IsDownload(p) THEN paths[PhaseCat[p]] ELSE LocalZips(PhaseCat[p])

\* pool.starmap(f, args) is called: the tasks are queued (lines 142-145, 177, 195).
BeginBatch ==
    /\ UNCHANGED fsVars
    /\ pc = "call"
    /\ tasks' = [tasks EXCEPT ![phase] = BatchArgs(phase)]
    /\ st' = [st EXCEPT ![phase] = [i \in 1..Len(BatchArgs(phase)) |-> "pending"]]
    /\ taken' = 0
    /\ pc' = "wait"
    /\ UNCHANGED <<run, nlist, paths, phase, wk, openSess, inflight, persistent, faults,
                   history, failedNow, returned, err>>

\* What a worker does after its task i of batch p ended: on success the next
\* task of the chunk, if any; on an exception the rest of the chunk is never
\* run (mapstar/starmapstar evaluate the chunk in one list(...) expression).
StAfter(p, i, ok) ==
    LET n == Len(tasks[p])
        last == LastOfChunk(ChunkOf(i, n), n)
    IN  [j \in 1..n |->
            IF j = i THEN (IF ok THEN "done" ELSE "failed")
            ELSE IF ok /\ j = i + 1 /\ i < last THEN "running"
            ELSE IF ~ok /\ j > i /\ j <= last THEN "skipped"
            ELSE st[p][j]]

WkAfter(p, i, ok) ==
    LET n == Len(tasks[p])
        last == LastOfChunk(ChunkOf(i, n), n)
    IN  IF ok /\ i < last THEN [p |-> p, task |-> i + 1, step |-> "begin"] ELSE Idle

\* An idle worker takes the next chunk from the task queue and starts its
\* first task. The worker processes are identical: of the idle ones the one
\* with the lowest number is taken to be the one that gets the chunk.
TakeChunk(w) ==
    /\ UNCHANGED fsVars
    /\ pc = "wait"
    /\ wk[w].task = 0
    /\ \A v \in Workers : v < w => wk[v].task # 0
    /\ taken < NumChunks(NTasks)
    /\ taken' = taken + 1
    /\ wk' = [wk EXCEPT ![w] = [p |-> phase, task |-> FirstOfChunk(taken + 1, NTasks), step |-> "begin"]]
    /\ st' = [st EXCEPT ![phase][FirstOfChunk(taken + 1, NTasks)] = "running"]
    /\ UNCHANGED <<run, pc, nlist, paths, phase, tasks, openSess, inflight, persistent, faults,
                   history, failedNow, returned, err>>

\* The task i of batch p, run by worker w, ends by raising.
TaskRaises(w, p, i, kind) ==
    /\ faults < MaxFaults
    /\ faults' = faults + 1
    /\ err' = err \cup {kind}
    /\ st' = [st EXCEPT ![p] = StAfter(p, i, FALSE)]
    /\ wk' = [wk EXCEPT ![w] = WkAfter(p, i, FALSE)]
    /\ failedNow' = failedNow \cup ({tasks[p][i]} \cap Range(paths[PhaseCat[p]]))

\* The task i of batch p, run by worker w, returns.
TaskReturns(w, p, i) ==
    /\ st' = [st EXCEPT ![p] = StAfter(p, i, TRUE)]
    /\ wk' = [wk EXCEPT ![w] = WkAfter(p, i, TRUE)]
    /\ UNCHANGED <<faults, err, failedNow>>

\* download_file, lines 107-113: the task opens its own session; an
\* AuthError/ConnectError of the constructor is the task's exception. Then
\* ftp.download_file(remote_file, local_file) starts a transfer on the session
\* bound by the task's with statement.
DlOpen(w) ==
    /\ UNCHANGED fsVars
    /\ wk[w].task > 0
    /\ wk[w].step = "begin"
    /\ IsDownload(wk[w].p)
    /\ \/ /\ openSess' = openSess \cup {TaskSess(wk[w].p, wk[w].task)}
          /\ inflight' = inflight \cup {[by |-> <<wk[w].p, wk[w].task>>,
                                        on |-> SessionUsedBy(wk[w].p, wk[w].task)]}
          /\ wk' = [wk EXCEPT ![w].step = "xfer"]
          /\ UNCHANGED <<st, faults, err, failedNow>>
       \/ /\ TaskRaises(w, wk[w].p, wk[w].task, "connect")
          /\ UNCHANGED <<openSess, inflight>>
    /\ UNCHANGED <<run, pc, nlist, paths, phase, tasks, taken, persistent, history, returned>>

\* download_file, lines 112-116: the transfer ends. It returns, or raises a
\* transfer error, or a KeyboardInterrupt is delivered to the worker: the
\* handler calls pool.terminate() on the module global pool, which is None in
\* every process (line 32; the pool of line 141 is a local of
\* download_data_files), so the task raises AttributeError. In all three cases
\* the with block's exit closes the task's session.
DlFinish(w) ==
    /\ UNCHANGED fsVars
    /\ wk[w].task > 0
    /\ wk[w].step = "xfer"
    /\ inflight' = {t \in inflight : t.by # <<wk[w].p, wk[w].task>>}
    /\ openSess' = openSess \ TaskSessionsClosed(wk[w].p, wk[w].task)
    /\ \/ /\ TaskReturns(w, wk[w].p, wk[w].task)
          /\ downloadDir' = downloadDir \cup {tasks[wk[w].p][wk[w].task]}
       \/ /\ TaskRaises(w, wk[w].p, wk[w].task, "transfer")
          /\ UNCHANGED downloadDir
       \/ /\ TaskRaises(w, wk[w].p, wk[w].task, "worker_interrupt")
          /\ UNCHANGED downloadDir
    /\ UNCHANGED <<run, pc, nlist, paths, phase, tasks, taken, shardsMade, lastRunAt,
                   history, returned>>

\* The paths zf.extractall(target_dir) writes for archive z (line 164), one
\* per member: an ONIX archive holds one member, named after the archive.
FlatTargets(z) == {z}

\* extract_zip / extract_cover_zip as one task of an extraction batch: the
\* archive is unpacked, or ZipFile raises (a corrupt or truncated archive).
\* extract_zip writes every member of the archive, whether or not a file is
\* at the member's path already (extractall makes no test).
ExFinish(w) ==
    /\ UNCHANGED <<zipEntries, fsDirs, fsFiles, mkBy, cvK, fsData, wrote, fsSnap>>
    /\ wk[w].task > 0
    /\ wk[w].step = "begin"
    /\ ~IsDownload(wk[w].p)
    /\ \/ /\ TaskReturns(w, wk[w].p, wk[w].task)
          /\ IF wk[w].p = CoverExtractPhase
             THEN UNCHANGED flatVars
             ELSE /\ flatFiles' = flatFiles \cup FlatTargets(tasks[wk[w].p][wk[w].task])
                  /\ overwrote' = overwrote \cup (FlatTargets(tasks[wk[w].p][wk[w].task]) \cap flatFiles)
       \/ /\ TaskRaises(w, wk[w].p, wk[w].task, "extract")
          /\ UNCHANGED flatVars
    /\ UNCHANGED <<run, pc, nlist, paths, phase, tasks, taken, openSess, inflight, persistent,
                   history, returned>>

\* A KeyboardInterrupt is delivered to a worker process that runs a task
\* outside the try of lines 112-116: in extract_zip or extract_cover_zip,
\* which have no handler, or in download_file before line 112. The pool's
\* worker loop catches Exception only, so the process ends without reporting
\* its chunk; the pool starts a process in its place.
WorkerDies(w) ==
    /\ UNCHANGED fsVars
    /\ wk[w].task > 0
    /\ wk[w].step = "begin"
    /\ faults < MaxFaults
    /\ faults' = faults + 1
    /\ err' = err \cup {"worker_died"}
    /\ st' = [st EXCEPT ![wk[w].p][wk[w].task] = "lost"]
    /\ wk' = [wk EXCEPT ![w] = Idle]
    /\ UNCHANGED <<run, pc, nlist, paths, phase, tasks, taken, openSess, inflight, persistent,
                   history, failedNow, returned>>

\* Variants: the exceptions of a batch are swallowed (logged only); only the
\* download batches re-raise.
RaisesNever(p) == FALSE
RaisesDownloadOnly(p) == IsDownload(p) /\ AnyFailed(p)

\* MapResult.get(): starmap re-raises the first exception of the batch.
Raises(p) == AnyFailed(p)

\* Variant: save_run_history is called right after download_data_files.
PcSaveAfterDownloads(p) ==
    IF p = LastDownloadPhase THEN "save"
    ELSE IF p + 1 = CoverExtractPhase THEN "mkdirs"
    ELSE "call"

\* Where main() goes when the starmap call of batch p has returned.
PcAfterBatch(p) ==
    IF p = NumPhases THEN "save"
    ELSE IF p + 1 = CoverExtractPhase THEN "mkdirs"
    ELSE "call"

\* starmap returns, or re-raises: the exception leaves the pool's with block
\* (which terminates the idle workers), the enclosing function and main().
EndBatch ==
    /\ UNCHANGED fsVars
    /\ pc = "wait"
    /\ BatchComplete
    /\ IF Raises(phase)
       THEN /\ pc' = "aborted"
            /\ UNCHANGED <<phase, returned>>
       ELSE /\ pc' = PcAfterBatch(phase)
            /\ phase' = IF phase < NumPhases THEN phase + 1 ELSE phase
            /\ returned' = returned \cup {phase}
    /\ UNCHANGED <<run, nlist, paths, poolVars, openSess, inflight, persistent, faults,
                   history, failedNow, err>>

\* unzip_covers_threaded, lines 185-187: os.makedirs(dirname, exist_ok=True)
\* for i in range(0, 10000); directories that exist already are left alone.
PrepareCovers ==
    /\ UNCHANGED fsVars
    /\ pc = "mkdirs"
    /\ shardsMade' = ShardsAfterLoop(shardsMade)
    /\ pc' = "call"
    /\ UNCHANGED <<run, nlist, paths, phase, poolVars, openSess, inflight, downloadDir,
                   lastRunAt, faults, history, failedNow, returned, err>>

\* main(), line 241.
SaveRunHistory ==
    /\ UNCHANGED fsVars
    /\ pc = "save"
    /\ lastRunAt' = run
    /\ saves' = saves + 1
    /\ pc' = "done"
    /\ UNCHANGED <<run, nlist, paths, phase, poolVars, openSess, inflight, downloadDir,
                   shardsMade, faults, startLastRunAt, startShards, failedNow, failedPrev,
                   returned, err>>

\* A KeyboardInterrupt is raised in main(). Inside the listing's with block
\* the session is closed on the way out. Inside a pool's with block the exit
\* calls terminate(): every worker process is killed where it stands; a worker
\* holding a session either got to its own with exit first or dies with the
\* session never closed. Inside the loop of lines 185-187 the directories made
\* so far stay.
Interrupt ==
    /\ UNCHANGED fsVars
    /\ pc \in {"main", "list", "call", "wait", "mkdirs", "save"}
    /\ faults < MaxFaults
    /\ faults' = faults + 1
    /\ err' = err \cup {"interrupt"}
    /\ pc' = "aborted"
    /\ inflight' = {}
    /\ wk' = [w \in Workers |-> Idle]
    /\ st' = [p \in 1..NumPhases |->
                [i \in 1..Len(st[p]) |-> IF st[p][i] = "running" THEN "killed" ELSE st[p][i]]]
    /\ \E closed \in SUBSET (openSess \ ListingSessionsClosed) :
          openSess' = (openSess \ ListingSessionsClosed) \ closed
    /\ IF pc = "mkdirs"
       THEN \E k \in {0, NumShards \div 2} :
               shardsMade' = IF shardsMade > k THEN shardsMade ELSE k
       ELSE UNCHANGED shardsMade
    /\ UNCHANGED <<run, nlist, paths, phase, tasks, taken, downloadDir, lastRunAt,
                   history, failedNow, returned>>

\* The exit status of the interpreter (lines 244-245): main() returned; an
\* exception left main() uncaught; a KeyboardInterrupt left main() uncaught.
ExitReturned == 0
ExitUncaught == 1
ExitInterrupt == 130

\* The exit status of an invocation of main() that ended at endpc after
\* meeting the failures errs. No handler and no sys.exit() stands between a
\* failure and the interpreter: whatever exception it was, the status is the
\* one of an uncaught exception.
ExitStatusOf(endpc, errs) ==
    IF endpc = "done" THEN ExitReturned
    ELSE IF "interrupt" \in errs THEN ExitInterrupt
    ELSE ExitUncaught

\* main() is invoked again (the next scheduled run).
NextRun ==
    /\ UNCHANGED fsVars
    /\ pc \in {"done", "aborted"}
    /\ run < MaxRuns
    /\ run' = run + 1
    /\ pc' = "main"
    /\ nlist' = 0
    /\ paths' = NoPaths
    /\ phase' = 1
    /\ tasks' = NoTasks
    /\ st' = NoTasks
    /\ taken' = 0
    /\ wk' = [w \in Workers |-> Idle]
    /\ openSess' = {}
    /\ inflight' = {}
    /\ saves' = 0
    /\ startLastRunAt' = lastRunAt
    /\ startShards' = shardsMade
    /\ failedPrev' = failedNow
    /\ failedNow' = {}
    /\ returned' = {}
    /\ err' = {}
    /\ UNCHANGED <<persistent, faults>>

Next ==
    \/ OpenListing
    \/ ListCategory
    \/ CloseListing
    \/ BeginBatch
    \/ \E w \in Workers : TakeChunk(w)
    \/ \E w \in Workers : DlOpen(w)
    \/ \E w \in Workers : DlFinish(w)
    \/ \E w \in Workers : ExFinish(w)
    \/ \E w \in Workers : WorkerDies(w)
    \/ EndBatch
    \/ PrepareCovers
    \/ SaveRunHistory
    \/ Interrupt
    \/ NextRun

Spec == Init /\ [][Next]_vars

\* The steps of main() and of the worker processes are taken whenever they
\* can be: the operating system schedules every process, each listing and
\* each task finishes. Interrupts and the next invocation are up to the
\* environment.
Fairness ==
    /\ WF_vars(OpenListing)
    /\ WF_vars(ListCategory)
    /\ WF_vars(CloseListing)
    /\ WF_vars(BeginBatch)
    /\ \A w \in Workers : WF_vars(TakeChunk(w))
    /\ \A w \in Workers : WF_vars(DlOpen(w))
    /\ \A w \in Workers : WF_vars(DlFinish(w))
    /\ \A w \in Workers : WF_vars(ExFinish(w))
    /\ WF_vars(EndBatch)
    /\ WF_vars(PrepareCovers)
    /\ WF_vars(SaveRunHistory)

SpecLive == Init /\ [][Next]_vars /\ Fairness

\* ------------------------------------------------------ one batch on its own

\* main() has listed a feed of n new cover archives and nothing else (line
\* 138 is reached) and is about to hand the cover downloads to the pool.
InitBatch ==
    /\ run = 1
    /\ pc = "call"
    /\ nlist = Len(ListOrder)
    /\ \E n \in 1..MaxBatch : paths = [NoPaths EXCEPT !["cover"] = [k \in 1..n |-> <<"cover", k>>]]
    /\ phase = 1
    /\ tasks = NoTasks
    /\ st = NoTasks
    /\ taken = 0
    /\ wk = [w \in Workers |-> Idle]
    /\ openSess = {}
    /\ inflight = {}
    /\ downloadDir = {}
    /\ shardsMade = 0
    /\ lastRunAt = 0
    /\ faults = 0
    /\ saves = 0
    /\ startLastRunAt = 0
    /\ startShards = 0
    /\ failedNow = {}
    /\ failedPrev = {}
    /\ returned = {}
    /\ err = {}
    /\ zipEntries = <<>>
    /\ fsDirs = {}
    /\ fsFiles = {}
    /\ mkBy = {}
    /\ cvK = [w \in Workers |-> 0]
    /\ fsData = <<>>
    /\ wrote = {}
    /\ fsSnap = NoSnap
    /\ flatFiles = {}
    /\ overwrote = {}

\* The rest of the run from there, without interrupts.
NextBatch ==
    \/ BeginBatch
    \/ \E w \in Workers : TakeChunk(w)
    \/ \E w \in Workers : DlOpen(w)
    \/ \E w \in Workers : DlFinish(w)
    \/ \E w \in Workers : ExFinish(w)
    \/ EndBatch
    \/ PrepareCovers
    \/ SaveRunHistory

SpecBatch == InitBatch /\ [][NextBatch]_vars

\* --------------------------------------- cover extraction on the file system
\* Names and paths are sequences of one-character strings.

Digits == <<"0", "1", "2", "3", "4", "5", "6", "7", "8", "9">>
IsDigit(c) == \E d \in 1..10 : Digits[d] = c
DigitValue(c) == (CHOOSE d \in 1..10 : Digits[d] = c) - 1

\* f'{i:04}' for 0 <= i < 10000 (line 186).
Format04(i) ==
    <<Digits[((i \div 1000) % 10) + 1], Digits[((i \div 100) % 10) + 1],
      Digits[((i \div 10) % 10) + 1], Digits[(i % 10) + 1]>>

LastIndexOf(s, c) ==
    IF \E j \in 1..Len(s) : s[j] = c
    THEN CHOOSE j \in 1..Len(s) : s[j] = c /\ \A k \in (j + 1)..Len(s) : s[k] # c
    ELSE 0

\* os.path.splitext(f)[0]: the name up to the last dot of its last component,
\* unless that component has nothing but dots before it.
SplitExtRoot(f) ==
    LET sep == LastIndexOf(f, "/")
        dot == LastIndexOf(f, ".")
    IN  IF dot > sep /\ \E j \in (sep + 1)..(dot - 1) : f[j] # "."
        THEN SubSeq(f, 1, dot - 1)
        ELSE f

\* Variant: subdir[:4], the first four characters.
FirstChars(x) == SubSeq(x, 1, IF Len(x) > ShardWidth THEN ShardWidth ELSE Len(x))

\* subdir[-4:]: the last four characters, or all of them if there are fewer.
LastChars(x) == SubSeq(x, IF Len(x) > ShardWidth THEN Len(x) - ShardWidth + 1 ELSE 1, Len(x))

\* os.path.join(a, b).
Join(a, b) ==
    IF b # <<>> /\ b[1] = "/" THEN b
    ELSE IF a = <<>> \/ a[Len(a)] = "/" THEN a \o b
    ELSE a \o <<"/">> \o b

\* os.path.join(working_dir, "Imageswk", cover_size) (line 191), as one name.
TargetDir == <<"T">>

\* Line 186: the directory the loop makes for i.
ShardDir(i) == Join(TargetDir, Format04(i))

\* Lines 154-155: the path whose existence extract_cover_zip tests, and
\* line 158: the directory it hands to zf.extract.
ShardKey(f) == LastChars(SplitExtRoot(f))
FilePath(f) == Join(Join(TargetDir, ShardKey(f)), f)
ExtractDir(f) == Join(TargetDir, ShardKey(f))

\* ZipFile._extract_member: the member name without empty, "." and ".."
\* components, below the directory given.
RECURSIVE Sanitize(_)
Sanitize(f) ==
    IF f = <<>> THEN <<>>
    ELSE LET cut == IF \E j \in 1..Len(f) : f[j] = "/"
                    THEN CHOOSE j \in 1..Len(f) : f[j] = "/" /\ \A k \in 1..(j - 1) : f[k] # "/"
                    ELSE Len(f) + 1
             first == SubSeq(f, 1, cut - 1)
             rest == Sanitize(SubSeq(f, cut + 1, Len(f)))
         IN  IF first \in {<<>>, <<".">>, <<".", ".">>} THEN rest
             ELSE IF rest = <<>> THEN first
             ELSE first \o <<"/">> \o rest

ExtractTarget(f) == Join(ExtractDir(f), Sanitize(f))

\* os.path.dirname(targetpath) and the directories above it, as os.makedirs
\* walks them.
UpperDirs(path) == {SubSeq(path, 1, j - 1) : j \in {k \in 2..Len(path) : path[k] = "/"}}

IsShardDir(d) ==
    /\ Len(d) = Len(TargetDir) + 1 + ShardWidth
    /\ SubSeq(d, 1, Len(TargetDir) + 1) = TargetDir \o <<"/">>
    /\ \A j \in (Len(TargetDir) + 2)..Len(d) : IsDigit(d[j])

ShardIndex(d) ==
    LET n == Len(TargetDir) + 1
    IN  DigitValue(d[n + 1]) * 1000 + DigitValue(d[n + 2]) * 100
          + DigitValue(d[n + 3]) * 10 + DigitValue(d[n + 4])

\* os.path.exists for a directory under the target directory.
DirExists(d) ==
    \/ d \in fsDirs
    \/ d = TargetDir /\ shardsMade > 0
    \/ IsShardDir(d) /\ ShardIndex(d) < shardsMade /\ ShardDir(ShardIndex(d)) = d

\* Entry names the archives are made of.
NameIsbn == <<"9", "7", "8", "0", "1", "4", "1", "4", "3", "9", "5", "1", "8", ".", "j", "p", "g">>
NameWord == <<"c", "o", "v", "e", "r", ".", "j", "p", "g">>
NameShort == <<"a", "b", ".", "j", "p", "g">>
NameSub == <<"s", "/", "1", "2", "3", "4", "5", ".", "j", "p", "g">>
EntryNames == {NameIsbn, NameWord, NameShort, NameSub}

\* The archives: one to MaxEntries distinct entry names each.
Archives ==
    UNION {{a \in [1..n -> EntryNames] : \A j, k \in 1..n : j # k => a[j] # a[k]} : n \in 1..MaxEntries}

CoverZip(w) == tasks[wk[w].p][wk[w].task]

\* The bytes of a file that was under the target directory before any archive
\* of the model was unpacked; a file written from an archive holds the bytes
\* of that archive's member.
OldBytes == <<"old", 0>>
NoFile == <<"none", 0>>

\* Variant: the test of line 157 is left out and every entry is extracted.
ExistsNever(path) == FALSE

\* os.path.exists(filepath) (line 157).
Exists(path) == path \in fsFiles
Entry(w) == zipEntries[CoverZip(w)][cvK[w]]

\* The worker goes on after the entry it is at: the next entry, or the end
\* of the task (the archive is closed, extract_cover_zip returns).
CvAdvance(w) ==
    IF cvK[w] < Len(zipEntries[CoverZip(w)])
    THEN /\ cvK' = [cvK EXCEPT ![w] = cvK[w] + 1]
         /\ wk' = [wk EXCEPT ![w].step = "check"]
         /\ UNCHANGED <<st, faults, err, failedNow>>
    ELSE /\ cvK' = [cvK EXCEPT ![w] = 0]
         /\ TaskReturns(w, wk[w].p, wk[w].task)

\* Lines 151-152: ZipFile(file, "r") and zf.namelist(); a corrupt archive
\* raises here.
CvOpen(w) ==
    /\ wk[w].task > 0
    /\ wk[w].step = "begin"
    /\ wk[w].p = CoverExtractPhase
    /\ \/ /\ cvK' = [cvK EXCEPT ![w] = 1]
          /\ wk' = [wk EXCEPT ![w].step = "check"]
          /\ UNCHANGED <<st, faults, err, failedNow>>
       \/ /\ TaskRaises(w, wk[w].p, wk[w].task, "extract")
          /\ UNCHANGED cvK
    /\ UNCHANGED <<run, pc, nlist, paths, phase, tasks, taken, openSess, inflight, persistent,
                   history, returned, zipEntries, fsDirs, fsFiles, mkBy, fsData, wrote, fsSnap, flatVars>>

\* Lines 154-157: the entry is skipped if its path exists.
CvCheck(w) ==
    /\ wk[w].task > 0
    /\ wk[w].step = "check"
    /\ IF Exists(FilePath(Entry(w)))
       THEN CvAdvance(w)
       ELSE /\ wk' = [wk EXCEPT ![w].step = "extract"]
            /\ UNCHANGED <<st, faults, err, failedNow, cvK>>
    /\ UNCHANGED <<run, pc, nlist, paths, phase, tasks, taken, openSess, inflight, persistent,
                   history, returned, zipEntries, fsDirs, fsFiles, mkBy, fsData, wrote, fsSnap, flatVars>>

\* Line 158, inside zf.extract: if the directory of the target path is
\* missing it is to be made, by this worker.
CvExtract(w) ==
    /\ wk[w].task > 0
    /\ wk[w].step = "extract"
    /\ wk' = [wk EXCEPT ![w].step =
                IF \A d \in UpperDirs(ExtractTarget(Entry(w))) : DirExists(d) THEN "write" ELSE "mkdir"]
    /\ UNCHANGED <<run, pc, nlist, paths, phase, tasks, st, taken, openSess, inflight, persistent,
                   faults, history, failedNow, returned, err, fsVars>>

\* os.makedirs(upperdirs) inside zf.extract: the missing directories are
\* made. If another worker made the last of them in the meantime, the call
\* either raises FileExistsError or passes, depending on the zipfile version.
CvMkdir(w) ==
    /\ wk[w].task > 0
    /\ wk[w].step = "mkdir"
    /\ LET missing == {d \in UpperDirs(ExtractTarget(Entry(w))) : ~DirExists(d)}
       IN  \/ /\ missing # {}
              /\ fsDirs' = fsDirs \cup missing
              /\ mkBy' = mkBy \cup {[dir |-> d, by |-> wk[w].task] : d \in missing}
              /\ wk' = [wk EXCEPT ![w].step = "write"]
              /\ UNCHANGED <<st, err, failedNow, cvK>>
           \/ /\ missing = {}
              /\ wk' = [wk EXCEPT ![w].step = "write"]
              /\ UNCHANGED <<st, err, failedNow, cvK, fsDirs, mkBy>>
           \/ /\ missing = {}
              /\ err' = err \cup {"exists"}
              /\ st' = [st EXCEPT ![wk[w].p] = StAfter(wk[w].p, wk[w].task, FALSE)]
              /\ wk' = [wk EXCEPT ![w] = WkAfter(wk[w].p, wk[w].task, FALSE)]
              /\ failedNow' = failedNow \cup ({CoverZip(w)} \cap Range(paths[PhaseCat[wk[w].p]]))
              /\ cvK' = [cvK EXCEPT ![w] = 0]
              /\ UNCHANGED <<fsDirs, mkBy>>
    /\ UNCHANGED <<run, pc, nlist, paths, phase, tasks, taken, openSess, inflight, persistent,
                   faults, history, returned, zipEntries, fsFiles, fsData, wrote, fsSnap,
                   flatVars>>

\* The member is written to its target path, and the loop goes on.
CvWrite(w) ==
    /\ wk[w].task > 0
    /\ wk[w].step = "write"
    /\ fsFiles' = fsFiles \cup {ExtractTarget(Entry(w))}
    /\ fsData' = [x \in fsFiles \cup {ExtractTarget(Entry(w))} |->
                    IF x = ExtractTarget(Entry(w)) THEN CoverZip(w) ELSE fsData[x]]
    /\ wrote' = wrote \cup {[path |-> ExtractTarget(Entry(w)), by |-> wk[w].task,
                              entry |-> Entry(w),
                              over |-> IF ExtractTarget(Entry(w)) \in fsFiles
                                       THEN fsData[ExtractTarget(Entry(w))] ELSE NoFile]}
    /\ CvAdvance(w)
    /\ UNCHANGED <<run, pc, nlist, paths, phase, tasks, taken, openSess, inflight, persistent,
                   history, returned, zipEntries, fsDirs, mkBy, fsSnap, flatVars>>

\* main() is at line 227 with NZips cover archives under download_dir, in a
\* working directory that an earlier run may have populated.
InitCovers ==
    /\ run = 1
    /\ pc = "mkdirs"
    /\ nlist = Len(ListOrder)
    /\ paths = NoPaths
    /\ phase = CoverExtractPhase
    /\ tasks = NoTasks
    /\ st = NoTasks
    /\ taken = 0
    /\ wk = [w \in Workers |-> Idle]
    /\ openSess = {}
    /\ inflight = {}
    /\ downloadDir = {<<"cover", k>> : k \in 1..NZips}
    /\ shardsMade \in {0, NumShards}
    /\ lastRunAt = 0
    /\ faults = 0
    /\ saves = 0
    /\ startLastRunAt = 0
    /\ startShards = shardsMade
    /\ failedNow = {}
    /\ failedPrev = {}
    /\ returned = DownloadPhases
    /\ err = {}
    /\ zipEntries \in [downloadDir -> Archives]
    /\ fsDirs = {}
    /\ fsFiles = {}
    /\ mkBy = {}
    /\ cvK = [w \in Workers |-> 0]
    /\ fsData = <<>>
    /\ wrote = {}
    /\ fsSnap = NoSnap
    /\ flatFiles = {}
    /\ overwrote = {}

NextCovers ==
    \/ PrepareCovers
    \/ BeginBatch
    \/ \E w \in Workers : TakeChunk(w)
    \/ \E w \in Workers : CvOpen(w)
    \/ \E w \in Workers : CvCheck(w)
    \/ \E w \in Workers : CvExtract(w)
    \/ \E w \in Workers : CvMkdir(w)
    \/ \E w \in Workers : CvWrite(w)
    \/ EndBatch

SpecCovers == InitCovers /\ [][NextCovers]_vars

\* ------------------------------------ one cover archive, unpacked twice over

\* The paths the entries of the archives are tested at (line 155).
EntryPaths == {FilePath(f) : f \in EntryNames}

\* main() is at line 227 with one cover archive under download_dir; some of
\* the paths of line 155 hold a file already, with the directories above it.
InitRerun ==
    /\ run = 1
    /\ pc = "mkdirs"
    /\ nlist = Len(ListOrder)
    /\ paths = NoPaths
    /\ phase = CoverExtractPhase
    /\ tasks = NoTasks
    /\ st = NoTasks
    /\ taken = 0
    /\ wk = [w \in Workers |-> Idle]
    /\ openSess = {}
    /\ inflight = {}
    /\ downloadDir = {<<"cover", 1>>}
    /\ lastRunAt = 0
    /\ faults = 0
    /\ saves = 0
    /\ startLastRunAt = 0
    /\ failedNow = {}
    /\ failedPrev = {}
    /\ returned = DownloadPhases
    /\ err = {}
    /\ zipEntries \in [downloadDir -> Archives]
    /\ fsFiles \in SUBSET EntryPaths
    /\ shardsMade = IF fsFiles = {} THEN 0 ELSE NumShards
    /\ startShards = shardsMade
    /\ fsDirs = {d \in UNION {UpperDirs(x) : x \in fsFiles} : d # TargetDir /\ ~IsShardDir(d)}
    /\ fsData = [x \in fsFiles |-> OldBytes]
    /\ mkBy = {}
    /\ cvK = [w \in Workers |-> 0]
    /\ wrote = {}
    /\ fsSnap = NoSnap
    /\ flatFiles = {}
    /\ overwrote = {}

\* unzip_covers_threaded has returned; main() is invoked again with nothing
\* new on the server and arrives at line 227 with the same archive under
\* download_dir (line 226 finds it again).
CoversAgain ==
    /\ pc = "call"
    /\ phase = CoverExtractPhase + 1
    /\ fsSnap = NoSnap
    /\ fsSnap' = [files |-> fsFiles, dirs |-> fsDirs, data |-> fsData, none |-> FALSE]
    /\ wrote' = {}
    /\ pc' = "mkdirs"
    /\ phase' = CoverExtractPhase
    /\ tasks' = NoTasks
    /\ st' = NoTasks
    /\ taken' = 0
    /\ returned' = DownloadPhases
    /\ startShards' = shardsMade
    /\ UNCHANGED <<run, nlist, paths, wk, openSess, inflight, persistent, faults, saves,
                   startLastRunAt, failedNow, failedPrev, err, zipEntries, fsDirs, fsFiles,
                   mkBy, cvK, fsData, flatVars>>

NextRerun ==
    \/ PrepareCovers
    \/ BeginBatch
    \/ \E w \in Workers : TakeChunk(w)
    \/ \E w \in Workers : CvOpen(w)
    \/ \E w \in Workers : CvCheck(w)
    \/ \E w \in Workers : CvExtract(w)
    \/ \E w \in Workers : CvMkdir(w)
    \/ \E w \in Workers : CvWrite(w)
    \/ EndBatch
    \/ CoversAgain

SpecRerun == InitRerun /\ [][NextRerun]_vars

\* ------------------------------------------------------------------ claims

RunEnded == pc \in {"done", "aborted"}
Started(p, i) == st[p][i] # "pending"
Unfinished(p, i) == st[p][i] \in {"pending", "running"}
SomeTaskFailed == \E p \in Phases : AnyFailed(p)
Listed == UNION {Range(paths[c]) : c \in Cats}

\* C1: save_run_history is invoked at most once in a run, and only after the
\* starmap call of every download batch and of every extraction batch of the
\* run has returned; when the checkpoint is written no task is pending or
\* running and no worker holds a task.
C1_SaveLastAndOnce ==
    /\ saves <= 1
    /\ (pc = "save" \/ saves > 0) =>
          /\ returned = Phases
          /\ \A p \in Phases : \A i \in 1..Len(st[p]) : ~Unfinished(p, i)
          /\ \A w \in Workers : wk[w].task = 0
          /\ inflight = {}

C1_Witness ==
    /\ saves = 1
    /\ Len(tasks[1]) > 1
    /\ Len(tasks[CoverExtractPhase]) > 1

\* C2: if the task of a file discovered in this run raised (its download or
\* the extraction of its archive), save_run_history is not invoked in this
\* run and the persisted run history keeps the value it had when the run
\* started; and the next run, once it has listed the four categories, has
\* selected every such file again.
C2_NoCheckpointPastFailure ==
    /\ failedNow # {} => (saves = 0 /\ pc # "save" /\ lastRunAt = startLastRunAt)
    /\ (pc = "list" /\ nlist = Len(ListOrder)) => failedPrev \subseteq Listed

C2_Witness ==
    /\ run = 2
    /\ pc = "list"
    /\ nlist = Len(ListOrder)
    /\ failedPrev # {}
    /\ lastRunAt = 0

C4_ListingFailureAborts ==
    "listing" \in err =>
        /\ pc = "aborted"
        /\ \A p \in Phases : tasks[p] = <<>> /\ st[p] = <<>>
        /\ \A w \in Workers : wk[w].task = 0
        /\ saves = 0
        /\ lastRunAt = startLastRunAt

C4_Witness ==
    /\ "listing" \in err
    /\ pc = "aborted"
    /\ nlist = 2
    /\ paths["cover"] # <<>>

\* C6: the listing session is closed before any download task starts; every
\* transfer in flight belongs to a running task and is on the session that
\* this task opened itself, which is open; and no session carries more than
\* one transfer in flight.
C6_OneSessionPerTransfer ==
    /\ (\E p \in DownloadPhases : \E i \in 1..Len(st[p]) : Started(p, i)) => ListSess \notin openSess
    /\ \A t \in inflight :
          /\ t.on = TaskSess(t.by[1], t.by[2])
          /\ t.on \in openSess
          /\ \E w \in Workers : wk[w].p = t.by[1] /\ wk[w].task = t.by[2]
    /\ \A s \in openSess : Cardinality({t \in inflight : t.on = s}) <= 1
    /\ \A t, u \in inflight : t.on = u.on => t.by = u.by

C6_Witness ==
    /\ Cardinality(inflight) = 2
    /\ Cardinality({t.on : t \in inflight}) = 2
    /\ \A t \in inflight : t.on \in openSess

\* C8: whenever an extraction task of a category has started, the starmap call
\* of the download batch of that category has returned and none of its
\* download tasks is pending or running.
C8_DownloadsBeforeExtraction ==
    \A q \in ExtractPhases : \A i \in 1..Len(st[q]) :
        Started(q, i) =>
            \A p \in DownloadPhases :
                PhaseCat[p] = PhaseCat[q] =>
                    /\ p \in returned
                    /\ \A j \in 1..Len(st[p]) : ~Unfinished(p, j)

C8_Witness ==
    /\ \E i \in 1..Len(st[CoverExtractPhase]) : st[CoverExtractPhase][i] = "running"
    /\ Len(st[1]) > 1
    /\ \A j \in 1..Len(st[1]) : st[1][j] = "done"

\* The shard directory f'{i:04}' exists under <working_dir>/Imageswk/<cover_size>.
ShardDirExists(i) == i < shardsMade

\* C9: whenever an extract_cover_zip task has started, each of the 10,000
\* shard directories 0000 .. 9999 exists, also in a run that found some or all
\* of them already there.
C9_ShardDirsBeforeExtraction ==
    (\E i \in 1..Len(st[CoverExtractPhase]) : Started(CoverExtractPhase, i)) =>
        \A d \in 0..(NumShards - 1) : ShardDirExists(d)

C9_Witness ==
    /\ \E i \in 1..Len(st[CoverExtractPhase]) : st[CoverExtractPhase][i] = "running"
    /\ startShards > 0
    /\ startShards < NumShards

\* C7: the session a download_file task opened is closed once the task has
\* ended, however it ended, and no run ends with a session still open.
C7_SessionsClosedOnEveryExit ==
    /\ \A p \in DownloadPhases : \A i \in 1..Len(st[p]) :
          st[p][i] \in Terminal => TaskSess(p, i) \notin openSess
    /\ RunEnded => openSess = {}

\* The starmap call of batch p has ended: it returned, or it raised.
BatchEnded(p) == p \in returned \/ (pc = "aborted" /\ phase = p /\ st[p] # <<>>)

\* C5: when a batch in which exactly one task failed has ended, every other
\* task of the batch was started and ran to successful completion.
C5_SiblingsComplete ==
    \A p \in Phases :
        (BatchEnded(p) /\ Cardinality({i \in 1..Len(st[p]) : st[p][i] = "failed"}) = 1) =>
            \A j \in 1..Len(st[p]) : st[p][j] \in {"done", "failed"}

\* C10: no extraction task ever makes a directory: whatever the entry name,
\* the directories of the path it is extracted to exist before the task
\* looks for them.
C10_NoDirectoryMadeByWorker ==
    /\ mkBy = {}
    /\ \A w \in Workers : wk[w].step # "mkdir"

\* The second unzip_covers_threaded call over the same archive is under way
\* or has returned.
SecondCall == ~fsSnap.none
CoversReturned == pc = "call" /\ phase = CoverExtractPhase + 1

\* C12: extract_cover_zip running alone never writes to a path that holds a
\* file (so a file found at an entry's path <target_dir>/<last 4>/<entry>
\* keeps its bytes), and a second run over the same archive writes nothing:
\* files, bytes and directories stay as the first run left them.
C12_ShardedExtractionIdempotent ==
    /\ \A r \in wrote : r.over = NoFile
    /\ SecondCall =>
          /\ wrote = {}
          /\ fsFiles = fsSnap.files
          /\ fsData = fsSnap.data
          /\ fsDirs = fsSnap.dirs

C12_Witness ==
    /\ SecondCall
    /\ CoversReturned
    /\ \E f \in Range(zipEntries[<<"cover", 1>>]) :
          FilePath(f) \in fsFiles /\ fsData[FilePath(f)] = OldBytes
    /\ \E f \in Range(zipEntries[<<"cover", 1>>]) :
          FilePath(f) \in fsFiles /\ fsData[FilePath(f)] = <<"cover", 1>>

\* The name of an entry without its extension, and its last four characters.
Stem(f) == IF LastIndexOf(f, ".") > 1 THEN SubSeq(f, 1, LastIndexOf(f, ".") - 1) ELSE f
LastFour(x) == <<x[Len(x) - 3], x[Len(x) - 2], x[Len(x) - 1], x[Len(x)]>>
IsbnPath ==
    <<"T", "/", "9", "5", "1", "8", "/",
      "9", "7", "8", "0", "1", "4", "1", "4", "3", "9", "5", "1", "8", ".", "j", "p", "g">>

\* C14: every entry whose name without extension has at least 4 characters
\* (a plain relative name, as the archives of the feed carry) is written by
\* extract_cover_zip to <target_dir>/<last 4 characters of the name without
\* extension>/<entry name>, once, and to no other path; 9780141439518.jpg
\* lands at <target_dir>/9518/9780141439518.jpg.
C14_ShardingCorrect ==
    /\ \A r \in wrote :
          /\ Len(Stem(r.entry)) >= 4 =>
                r.path = TargetDir \o <<"/">> \o LastFour(Stem(r.entry)) \o <<"/">> \o r.entry
          /\ r.entry = NameIsbn => r.path = IsbnPath
    /\ \A r, q \in wrote : (r.entry = q.entry /\ r.by = q.by) => r.path = q.path
    /\ ~SecondCall => {x \in fsFiles : fsData[x] # OldBytes} = {r.path : r \in wrote}

C14_Witness ==
    /\ CoversReturned
    /\ IsbnPath \in fsFiles
    /\ fsData[IsbnPath] = <<"cover", 1>>
    /\ \E r \in wrote : r.entry = NameSub

\* C11: two extract_cover_zip tasks of one batch never write the same path,
\* also when their archives hold an entry of the same name: no path is
\* written by two tasks, and no two workers are about to write one path.
C11_WritesDisjoint ==
    /\ \A r, q \in wrote : r.by # q.by => r.path # q.path
    /\ \A w, v \in Workers :
          (w # v /\ wk[w].step = "write" /\ wk[v].step = "write") =>
              ExtractTarget(Entry(w)) # ExtractTarget(Entry(v))

\* C13: extract_zip never writes a member over a file that is at the
\* member's path already, also when a later run unpacks again the ONIX and
\* ONIX-backlist archives that were left under download_dir.
C13_FlatSkipsExisting == overwrote = {}

Interrupted == err \cap {"interrupt", "worker_interrupt", "worker_died"} # {}

\* C15: once a KeyboardInterrupt was delivered during a batch, to main() or
\* to a worker process, no task that was still pending is started, and
\* save_run_history is not invoked in that run.
C15_NoStartAfterInterrupt ==
    [][Interrupted =>
          /\ \A p \in Phases : \A i \in 1..Len(st[p]) :
                (st[p][i] = "pending" /\ i <= Len(st'[p])) => st'[p][i] # "running"
          /\ pc' # "save"]_vars

\* C19: every invocation of main() ends, with the checkpoint written or
\* aborted without it, also when a worker process is interrupted while it
\* holds a task.
C19_EveryRunEnds == (pc = "main") ~> RunEnded

\* C16: a run in which the listing succeeded and a download or extraction
\* task failed ends in an exit status other than the one of a run that a
\* connection-level error ended, and other than the one of a run in which
\* every task succeeded.
C16_OutcomesDistinguished ==
    (RunEnded /\ nlist = Len(ListOrder) /\ SomeTaskFailed /\ "listing" \notin err) =>
        /\ ExitStatusOf(pc, err) # ExitStatusOf("aborted", {"listing"})
        /\ ExitStatusOf(pc, err) # ExitStatusOf("done", {})

\* C17: when save_run_history is reached, each of the four categories has
\* been listed, its download batch has returned and after that an extraction
\* batch of the category has returned.
C17_AllCategoriesExtracted ==
    (pc = "save" \/ saves > 0) =>
        \A c \in Cats :
            /\ \E p \in DownloadPhases : PhaseCat[p] = c /\ p \in returned
            /\ \E q \in ExtractPhases : PhaseCat[q] = c /\ q \in returned

\* C18: the archives handed to an extraction batch of a run are archives
\* that the download batches of this run fetched.
C18_ExtractsOnlyThisRunsDownloads ==
    \A q \in ExtractPhases : Range(tasks[q]) \subseteq Range(paths[PhaseCat[q]])

====
